---- MODULE Spec2Model ----
(***************************************************************************)
(* Verification model of eslint-plugin-oxlint-x.                           *)
(*                                                                         *)
(*   - generateDifferences / flush   (src/src/helper.js)                   *)
(*   - mergeConfigs                  (oxlint.js)                           *)
(*                                                                         *)
(* Strings are sequences of one-character strings, so that offsets,        *)
(* lengths and substrings are those of the JavaScript code.                *)
(***************************************************************************)
EXTENDS Integers, Sequences, FiniteSets, TLC

(***************************************************************************)
(* Bounds of the model.                                                    *)
(***************************************************************************)
MaxLen == 3
MaxRawOps == 3
MaxRawText == 1
MaxEntries == 3
MaxConfigEntries == 2
MaxStrLen == 3
MaxCodeLen == 3
MaxDiagnostics == 2
MaxDepth == 3
MaxTwoLen == 2
MaxOtherLen == 1

\* Characters the bounded strings are built from: two ordinary characters
\* and one line ending.
Alphabet == {"a", "b", "\n"}

\* Characters of raw-op texts in the free-script specification.
RawAlphabet == {"a", "\n"}

(***************************************************************************)
(* Strings.                                                                *)
(***************************************************************************)
StringsUpTo(chars, n) == UNION {[1..k -> chars] : k \in 0..n}

Strings == StringsUpTo(Alphabet, MaxLen)

startsWith(s, p) == Len(p) <= Len(s) /\ SubSeq(s, 1, Len(p)) = p

\* LINE_ENDING_RE.test(text): the regular expression is the alternation of
\* "\r\n" and one character of the class; LS and PS stand for U+2028 and
\* U+2029.
LineEndingClass == {"\n", "\r", "LS", "PS"}

LINE_ENDING_RE_crlfOnly(text) ==
  \E i \in 1..Len(text) : i < Len(text) /\ text[i] = "\r" /\ text[i + 1] = "\n"

LINE_ENDING_RE_test(text) ==
  \E i \in 1..Len(text) :
    \/ (i < Len(text) /\ text[i] = "\r" /\ text[i + 1] = "\n")
    \/ text[i] \in LineEndingClass

(***************************************************************************)
(* fast-diff: the raw edit script.                                         *)
(***************************************************************************)
diff_INSERT == 1
diff_DELETE == 0 - 1
diff_EQUAL == 0
\* a kind fast-diff never produces
diff_UNKNOWN == diff_INSERT + 1

KnownKinds == {diff_INSERT, diff_DELETE, diff_EQUAL}

RawOp(op, text) == [op |-> op, text |-> text]

RECURSIVE OldSide(_)
OldSide(script) ==
  IF script = <<>> THEN <<>>
  ELSE (IF Head(script).op \in {diff_EQUAL, diff_DELETE} THEN Head(script).text ELSE <<>>)
       \o OldSide(Tail(script))

RECURSIVE NewSide(_)
NewSide(script) ==
  IF script = <<>> THEN <<>>
  ELSE (IF Head(script).op \in {diff_EQUAL, diff_INSERT} THEN Head(script).text ELSE <<>>)
       \o NewSide(Tail(script))

\* The scripts that turn s into t and occur only in the sequences
\*            /-> INSERT -> EQUAL
\*     EQUAL |           /-> EQUAL
\*            \-> DELETE |
\*                       \-> INSERT -> EQUAL
\* (helper.js:65-71): texts are non-empty, two ops of the same kind never
\* follow each other and a DELETE never follows an INSERT.  prev is the kind
\* of the op before the script (diff_UNKNOWN at its start).
RECURSIVE MergedScripts(_, _, _)
MergedScripts(s, t, prev) ==
  IF s = <<>> /\ t = <<>> THEN {<<>>}
  ELSE
    LET equals ==
          IF prev = diff_EQUAL THEN {}
          ELSE UNION { { <<RawOp(diff_EQUAL, SubSeq(s, 1, n))>> \o r :
                           r \in MergedScripts(SubSeq(s, n + 1, Len(s)),
                                               SubSeq(t, n + 1, Len(t)), diff_EQUAL) } :
                       n \in { m \in 1..Len(s) : m <= Len(t) /\ SubSeq(s, 1, m) = SubSeq(t, 1, m) } }
        deletes ==
          IF prev \in {diff_DELETE, diff_INSERT} THEN {}
          ELSE UNION { { <<RawOp(diff_DELETE, SubSeq(s, 1, n))>> \o r :
                           r \in MergedScripts(SubSeq(s, n + 1, Len(s)), t, diff_DELETE) } :
                       n \in 1..Len(s) }
        inserts ==
          IF prev = diff_INSERT THEN {}
          ELSE UNION { { <<RawOp(diff_INSERT, SubSeq(t, 1, n))>> \o r :
                           r \in MergedScripts(s, SubSeq(t, n + 1, Len(t)), diff_INSERT) } :
                       n \in 1..Len(t) }
    IN  equals \cup deletes \cup inserts

\* diff(text1, text2): the results fast-diff can return.  The package is an
\* external dependency, so its result is a choice among the scripts its
\* contract allows:
\*   - equal texts give no INSERT and no DELETE: one EQUAL, or nothing for
\*     the empty text (the helper tests: identical strings);
\*   - when one text is a proper prefix of the other, the common prefix is
\*     trimmed first: one EQUAL and then the rest as one INSERT or one DELETE
\*     (the helper tests: INSERT and DELETE operation);
\*   - otherwise any script in merged form (helper.js:65-71) whose EQUAL and
\*     DELETE texts make up text1 and whose EQUAL and INSERT texts make up
\*     text2.
diff(text1, text2) ==
  IF text1 = text2
    THEN { IF text1 = <<>> THEN <<>> ELSE <<RawOp(diff_EQUAL, text1)>> }
  ELSE IF startsWith(text2, text1)
    THEN { (IF text1 = <<>> THEN <<>> ELSE <<RawOp(diff_EQUAL, text1)>>)
           \o <<RawOp(diff_INSERT, SubSeq(text2, Len(text1) + 1, Len(text2)))>> }
  ELSE IF startsWith(text1, text2)
    THEN { (IF text2 = <<>> THEN <<>> ELSE <<RawOp(diff_EQUAL, text2)>>)
           \o <<RawOp(diff_DELETE, SubSeq(text1, Len(text2) + 1, Len(text1)))>> }
  ELSE MergedScripts(text1, text2, diff_UNKNOWN)

(***************************************************************************)
(* generateDifferences: operation names and flush.                         *)
(***************************************************************************)
INSERT == "insert"
DELETE == "delete"
REPLACE == "replace"

RECURSIVE aheadDeleteText_noEqual(_)
aheadDeleteText_noEqual(b) ==
  IF b = <<>> THEN <<>>
  ELSE (IF Head(b).op = diff_DELETE THEN Head(b).text ELSE <<>>)
       \o aheadDeleteText_noEqual(Tail(b))

\* helper.js:129-150, the text flush() accumulates in aheadDeleteText
RECURSIVE aheadDeleteText(_)
aheadDeleteText(b) ==
  IF b = <<>> THEN <<>>
  ELSE (IF Head(b).op \in {diff_DELETE, diff_EQUAL} THEN Head(b).text ELSE <<>>)
       \o aheadDeleteText(Tail(b))

\* helper.js:129-150, the text flush() accumulates in aheadInsertText
RECURSIVE aheadInsertText(_)
aheadInsertText(b) ==
  IF b = <<>> THEN <<>>
  ELSE (IF Head(b).op \in {diff_INSERT, diff_EQUAL} THEN Head(b).text ELSE <<>>)
       \o aheadInsertText(Tail(b))

flushEntry_noInsert(b, off) ==
  LET del == aheadDeleteText(b)
      ins == aheadInsertText(b)
  IN  IF del # <<>> /\ ins # <<>>
        THEN << [offset |-> off, operation |-> REPLACE, insertText |-> ins, deleteText |-> del] >>
      ELSE IF del # <<>> /\ ins = <<>>
        THEN << [offset |-> off, operation |-> DELETE, deleteText |-> del] >>
      ELSE <<>>

flushEntry_insertFirst(b, off) ==
  LET del == aheadDeleteText(b)
      ins == aheadInsertText(b)
  IN  IF ins # <<>>
        THEN << [offset |-> off, operation |-> INSERT, insertText |-> ins] >>
      ELSE IF del # <<>>
        THEN << [offset |-> off, operation |-> DELETE, deleteText |-> del] >>
      ELSE <<>>

\* helper.js:152-172, the entry flush() pushes for the batch b at offset off
\* (a sequence of at most one entry).
flushEntry(b, off) ==
  LET del == aheadDeleteText(b)
      ins == aheadInsertText(b)
  IN  IF del # <<>> /\ ins # <<>>
        THEN << [offset |-> off, operation |-> REPLACE, insertText |-> ins, deleteText |-> del] >>
      ELSE IF del = <<>> /\ ins # <<>>
        THEN << [offset |-> off, operation |-> INSERT, insertText |-> ins] >>
      ELSE IF del # <<>> /\ ins = <<>>
        THEN << [offset |-> off, operation |-> DELETE, deleteText |-> del] >>
      ELSE <<>>

flushOffset_insertLength(b, off) == off + Len(aheadInsertText(b))

flushOffset_noAdvance(b, off) == off

\* helper.js:175
flushOffset(b, off) == off + Len(aheadDeleteText(b))

advance_byOne(off, text) == off + 1

advance_none(off, text) == off

\* helper.js:102 and 109, offset += text.length
advance(off, text) == off + Len(text)

\* generateDifferences run from the raw ops rs with batch b, offset off and
\* differences d to its return: the loop of helper.js:86-120 on scripts of
\* INSERT, DELETE and EQUAL ops.
RECURSIVE loop(_, _, _, _)
loop(rs, b, off, d) ==
  IF rs = <<>> THEN d
  ELSE LET result == Head(rs)
           rest == Tail(rs)
           text == result.text
           flushed == result.op = diff_EQUAL /\ rest # <<>> /\ b # <<>>
                        /\ LINE_ENDING_RE_test(text)
           b1 == IF result.op # diff_EQUAL THEN Append(b, result)
                 ELSE IF flushed THEN <<>>
                 ELSE IF rest # <<>> /\ b # <<>> THEN Append(b, result)
                 ELSE b
           off1 == IF result.op # diff_EQUAL THEN off
                   ELSE IF flushed THEN advance(flushOffset(b, off), text)
                   ELSE IF rest # <<>> /\ b = <<>> THEN advance(off, text)
                   ELSE off
           d1 == IF flushed THEN d \o flushEntry(b, off) ELSE d
       IN  IF b1 # <<>> /\ rest = <<>>
             THEN loop(rest, <<>>, flushOffset(b1, off1), d1 \o flushEntry(b1, off1))
           ELSE loop(rest, b1, off1, d1)

(***************************************************************************)
(* Configuration values: the JavaScript values a configuration is made of. *)
(***************************************************************************)
Undefined == [t |-> "undefined"]
Null == [t |-> "null"]
Num(n) == [t |-> "number", n |-> n]
Arr(items) == [t |-> "array", items |-> items]
Obj(props) == [t |-> "object", props |-> props]

EmptyObject == Obj(<<>>)

\* !v
falsy(v) ==
  \/ v.t \in {"undefined", "null"}
  \/ v.t = "number" /\ v.n = 0

typeof(v) == IF v.t \in {"object", "array", "null", "ref"} THEN "object" ELSE v.t

isArray(v) == v.t = "array"

\* Object.keys(o)
keys(o) == DOMAIN o.props

\* o[key]
get(o, key) == IF key \in keys(o) THEN o.props[key] ELSE Undefined

RECURSIVE mergeConfigs_emptyWhenAbsent(_, _)
mergeConfigs_emptyWhenAbsent(b, o) ==
  IF falsy(b) \/ falsy(o) THEN EmptyObject
  ELSE Obj([key \in keys(b) \cup keys(o) |->
              IF key \notin keys(o) THEN b.props[key]
              ELSE LET valA == get(b, key)
                       valB == o.props[key]
                   IN  IF valA.t = "object" /\ valB.t = "object"
                         THEN mergeConfigs_emptyWhenAbsent(valA, valB)
                         ELSE valB])

\* the value of the base kept where both sides have the key
RECURSIVE mergeConfigs_baseWins(_, _)
mergeConfigs_baseWins(b, o) ==
  IF falsy(b) THEN (IF falsy(o) THEN EmptyObject ELSE o)
  ELSE IF falsy(o) THEN b
  ELSE Obj([key \in keys(b) \cup keys(o) |->
              IF key \notin keys(o) THEN b.props[key]
              ELSE IF key \notin keys(b) THEN o.props[key]
              ELSE LET valA == b.props[key]
                       valB == o.props[key]
                   IN  IF valA.t = "object" /\ valB.t = "object"
                         THEN mergeConfigs_baseWins(valA, valB)
                         ELSE valA])

\* nested objects spread one level deep only
mergeConfigs_shallow(b, o) ==
  IF falsy(b) THEN (IF falsy(o) THEN EmptyObject ELSE o)
  ELSE IF falsy(o) THEN b
  ELSE Obj([key \in keys(b) \cup keys(o) |->
              IF key \notin keys(o) THEN b.props[key]
              ELSE LET valA == get(b, key)
                       valB == o.props[key]
                   IN  IF valA.t = "object" /\ valB.t = "object"
                         THEN Obj([k2 \in keys(valA) \cup keys(valB) |->
                                     IF k2 \in keys(valB) THEN valB.props[k2]
                                     ELSE valA.props[k2]])
                         ELSE valB])

\* two arrays under the same key joined, the override's items after the base's
RECURSIVE mergeConfigs_concatArrays(_, _)
mergeConfigs_concatArrays(b, o) ==
  IF falsy(b) THEN (IF falsy(o) THEN EmptyObject ELSE o)
  ELSE IF falsy(o) THEN b
  ELSE Obj([key \in keys(b) \cup keys(o) |->
              IF key \notin keys(o) THEN b.props[key]
              ELSE LET valA == get(b, key)
                       valB == o.props[key]
                   IN  IF valA.t = "object" /\ valB.t = "object"
                         THEN mergeConfigs_concatArrays(valA, valB)
                       ELSE IF isArray(valA) /\ isArray(valB)
                         THEN Arr(valA.items \o valB.items)
                       ELSE valB])

\* mergeConfigs(base, override); the loop over Object.keys(override) assigns
\* result[key] once for every key, so the result is given key by key.
RECURSIVE mergeConfigs(_, _)
mergeConfigs(b, o) ==
  IF falsy(b) THEN (IF falsy(o) THEN EmptyObject ELSE o)
  ELSE IF falsy(o) THEN b
  ELSE Obj([key \in keys(b) \cup keys(o) |->
              IF key \notin keys(o) THEN b.props[key]
              ELSE LET valA == get(b, key)
                       valB == o.props[key]
                   IN  IF /\ typeof(valA) = "object"
                          /\ valA # Null
                          /\ ~isArray(valA)
                          /\ typeof(valB) = "object"
                          /\ valB # Null
                          /\ ~isArray(valB)
                         THEN mergeConfigs(valA, valB)
                         ELSE valB])

(***************************************************************************)
(* Objects by reference.  A heap is a sequence of objects, each a map from *)
(* keys to values; a value is a number, null, an array or Ref(a), the      *)
(* object at address a.  mergeConfigsOnHeap is mergeConfigs with the       *)
(* objects it reads, creates and writes.                                   *)
(***************************************************************************)
Ref(a) == [t |-> "ref", a |-> a]

\* the elements of the set S, in a fixed order
RECURSIVE KeyOrder(_)
KeyOrder(S) ==
  IF S = {} THEN <<>>
  ELSE LET k == CHOOSE x \in S : TRUE IN <<k>> \o KeyOrder(S \ {k})

\* The heap h with the tree v stored in new objects, and the value that
\* refers to it.
RECURSIVE store(_, _), storeProps(_, _, _, _)
store(h, v) ==
  IF v.t # "object" THEN [h |-> h, v |-> v]
  ELSE LET r == storeProps(h, v.props, KeyOrder(DOMAIN v.props), <<>>)
       IN  [h |-> Append(r.h, r.p), v |-> Ref(Len(r.h) + 1)]

storeProps(h, props, ks, acc) ==
  IF ks = <<>> THEN [h |-> h, p |-> acc]
  ELSE LET r == store(h, props[Head(ks)])
       IN  storeProps(r.h, props, Tail(ks), (Head(ks) :> r.v) @@ acc)

\* the tree the value v stands for in the heap h
RECURSIVE Deref(_, _)
Deref(h, v) ==
  IF v.t = "ref" THEN Obj([k \in DOMAIN h[v.a] |-> Deref(h, h[v.a][k])])
  ELSE v

\* {}
newObject(h, props) == [h |-> Append(h, props), v |-> Ref(Len(h) + 1)]

spread_alias(h, b) == [h |-> h, v |-> b]

\* { ...base }
spread(h, b) == newObject(h, h[b.a])

\* result[key] = val
assign(h, result, key, val) == [h EXCEPT ![result.a] = (key :> val) @@ @]

\* mergeConfigs(base, override) on the heap h: the heap it leaves and the
\* value it returns.  mergeKeys is the loop over Object.keys(override).
RECURSIVE mergeConfigsOnHeap(_, _, _), mergeKeys(_, _, _, _)
mergeConfigsOnHeap(h, b, o) ==
  IF falsy(b) THEN (IF falsy(o) THEN newObject(h, <<>>) ELSE [h |-> h, v |-> o])
  ELSE IF falsy(o) THEN [h |-> h, v |-> b]
  ELSE LET result == spread(h, b)
       IN  [h |-> mergeKeys(result.h, result.v, o, KeyOrder(DOMAIN h[o.a])), v |-> result.v]

mergeKeys(h, result, o, ks) ==
  IF ks = <<>> THEN h
  ELSE LET key == Head(ks)
           valA == IF key \in DOMAIN h[result.a] THEN h[result.a][key] ELSE Undefined
           valB == h[o.a][key]
       IN  IF /\ typeof(valA) = "object"
              /\ valA # Null
              /\ ~isArray(valA)
              /\ typeof(valB) = "object"
              /\ valB # Null
              /\ ~isArray(valB)
             THEN LET r == mergeConfigsOnHeap(h, valA, valB)
                  IN  mergeKeys(assign(r.h, result, key, r.v), result, o, Tail(ks))
             ELSE mergeKeys(assign(h, result, key, valB), result, o, Tail(ks))

(***************************************************************************)
(* lint and format: the configuration handed to oxlint.                    *)
(***************************************************************************)
\* The nearest .oxlintrc.json as lint and format see it: not found
\* (resolveOxlintConfigFile returns null), found but readFileSync or
\* JSON.parse throws, or found with the value JSON.parse returns.
NoRcFile == [kind |-> "none"]
UnreadableRcFile == [kind |-> "unreadable"]
JsonRcFile(v) == [kind |-> "json", content |-> v]

\* resolveOxlintConfigFile(filePath) is not null
realConfigPath(rc) == rc.kind # "none"

finalConfigOf_inlineWins(cfg, rc) ==
  IF rc.kind = "json" THEN mergeConfigs(rc.content, cfg) ELSE cfg

\* let finalConfig = config; if (realConfigPath) try { finalConfig =
\* mergeConfigs(config, JSON.parse(readFileSync(realConfigPath))) } catch {}
finalConfigOf(cfg, rc) ==
  IF rc.kind = "json" THEN mergeConfigs(cfg, rc.content) ELSE cfg

\* JSON.stringify(config) as oxlint reads it back: properties whose value is
\* undefined are left out, undefined in an array becomes null.
RECURSIVE jsonStringify(_)
jsonStringify(v) ==
  IF v.t = "object"
    THEN Obj([k \in {x \in keys(v) : v.props[x] # Undefined} |-> jsonStringify(v.props[k])])
  ELSE IF v.t = "array"
    THEN Arr([i \in 1..Len(v.items) |->
                IF v.items[i] = Undefined THEN Null ELSE jsonStringify(v.items[i])])
  ELSE v

\* The --config argument: a temp file holding the final configuration when
\* it has keys, else the real .oxlintrc.json when one was found, else none.
configArgOf(final, rc) ==
  IF ~falsy(final) /\ Cardinality(keys(final)) > 0
    THEN [kind |-> "temp", content |-> jsonStringify(final)]
  ELSE IF realConfigPath(rc)
    THEN [kind |-> "path", file |-> rc]
  ELSE [kind |-> "none"]

\* The temp files of a call: the code written by createTempFile and the
\* configuration written by createTempConfigFile, each under a random name.
CodeTemp == "lint-temp"
ConfigTemp == "config-temp"

\* The step of a call that throws, if any: ensureTempDir, the write of the
\* code temp file, the write of the config temp file, the oxlint run, or
\* the reading of its output (JSON.parse in lint, readFileSync in format).
Faults == {"none", "ensureTempDir", "writeCode", "writeConfig", "oxlint", "output"}

\* trackTempFile(filePath)
trackTempFile(tracked, filePath) == tracked \cup {filePath}

cleanupTempFile_keepTracked(st, filePath) ==
  [tempFiles |-> st.tempFiles, unlinked |-> st.unlinked \cup {filePath}]

\* cleanupTempFile(filePath): tempFiles.delete, then unlinkSync in a try
\* whose catch ignores the error
cleanupTempFile(st, filePath) ==
  [tempFiles |-> st.tempFiles \ {filePath}, unlinked |-> st.unlinked \cup {filePath}]

\* the finally block: every cleanup task, in order
RECURSIVE runCleanupTasks(_, _)
runCleanupTasks(st, cleanupTasks) ==
  IF cleanupTasks = <<>> THEN st
  ELSE runCleanupTasks(cleanupTempFile(st, Head(cleanupTasks)), Tail(cleanupTasks))

\* the temp files tracked after the writes of cleanupTasks' files
RECURSIVE trackAll(_, _)
trackAll(tracked, cleanupTasks) ==
  IF cleanupTasks = <<>> THEN tracked
  ELSE trackAll(trackTempFile(tracked, Head(cleanupTasks)), Tail(cleanupTasks))

\* the cleanup tasks a call has pushed when its try block ends: one for
\* each temp file whose write returned
cleanupTasksOf(flt, arg) ==
  IF flt = "writeCode" THEN <<>>
  ELSE IF arg.kind = "temp" /\ flt # "writeConfig" THEN <<CodeTemp, ConfigTemp>>
  ELSE <<CodeTemp>>

\* the call gets as far as executeOxlint(args)
reachesOxlint(flt, arg) ==
  /\ flt \notin {"ensureTempDir", "writeCode"}
  /\ ~(flt = "writeConfig" /\ arg.kind = "temp")

\* the call throws
throws(flt, arg) ==
  \/ flt \in {"ensureTempDir", "writeCode", "oxlint", "output"}
  \/ flt = "writeConfig" /\ arg.kind = "temp"

\* A whole call of lint or format on the tracking set tracked: what it
\* created, what is tracked and unlinked when it has returned or thrown.
callOf(flt, arg, tracked) ==
  IF flt = "ensureTempDir"
    THEN [created |-> {}, tempFiles |-> tracked, unlinked |-> {}]
  ELSE LET cleanupTasks == cleanupTasksOf(flt, arg)
           st == runCleanupTasks([tempFiles |-> trackAll(tracked, cleanupTasks),
                                  unlinked |-> {}],
                                 cleanupTasks)
       IN  [created |-> { cleanupTasks[i] : i \in 1..Len(cleanupTasks) },
            tempFiles |-> st.tempFiles,
            unlinked |-> st.unlinked]

(***************************************************************************)
(* showInvisibles.  A string is its sequence of UTF-16 code units; the     *)
(* code units the function can write are named by their code point.        *)
(***************************************************************************)
MiddleDot == "U+00B7"
ReturnSymbol == "U+23CE"
TabSymbol == "U+21B9"
CRSymbol == "U+240D"

\* a high and a low surrogate, and a whitespace character that is none of
\* the four cases of the switch
HighSurrogate == "U+D83D"
LowSurrogate == "U+DE00"
NoBreakSpace == "U+00A0"

\* for (const element of str): the string iterator yields code points, a
\* high surrogate followed by a low surrogate being one element
RECURSIVE elements(_)
elements(s) ==
  IF s = <<>> THEN <<>>
  ELSE IF Len(s) >= 2 /\ s[1] = HighSurrogate /\ s[2] = LowSurrogate
    THEN <<SubSeq(s, 1, 2)>> \o elements(SubSeq(s, 3, Len(s)))
  ELSE <<SubSeq(s, 1, 1)>> \o elements(Tail(s))

visible_allWhitespace(element) ==
  IF element \in {<<" ">>, <<NoBreakSpace>>} THEN <<MiddleDot>>
  ELSE IF element = <<"\n">> THEN <<ReturnSymbol>>
  ELSE IF element = <<"\t">> THEN <<TabSymbol>>
  ELSE IF element = <<"\r">> THEN <<CRSymbol>>
  ELSE element

\* the switch: what one element adds to ret
visible(element) ==
  IF element = <<" ">> THEN <<MiddleDot>>
  ELSE IF element = <<"\n">> THEN <<ReturnSymbol>>
  ELSE IF element = <<"\t">> THEN <<TabSymbol>>
  ELSE IF element = <<"\r">> THEN <<CRSymbol>>
  ELSE element

RECURSIVE concat(_)
concat(parts) == IF parts = <<>> THEN <<>> ELSE visible(Head(parts)) \o concat(Tail(parts))

showInvisibles(s) == concat(elements(s))

(***************************************************************************)
(* The oxlint rule: Program() and the fix function of its report.          *)
(***************************************************************************)
\* sourceCode.getLocFromIndex(index) throws outside 0..text.length
locatable(text, index) == index >= 0 /\ index <= Len(text)

\* sourceCode.getLocFromIndex(index): 1-based line, 0-based column
getLocFromIndex(text, index) ==
  LET breaks == { i \in 1..index : text[i] = "\n" }
      lineStart == IF breaks = {} THEN 0 ELSE CHOOSE i \in breaks : \A j \in breaks : j <= i
  IN  [line |-> Cardinality(breaks) + 1, column |-> index - lineStart]

\* diagnostic.labels?.[0]
firstLabel(diagnostic) ==
  IF diagnostic.labels = <<>> THEN Undefined ELSE diagnostic.labels[1]

\* if (!label || !label.span) continue
hasSpan(diagnostic) ==
  /\ firstLabel(diagnostic) # Undefined
  /\ firstLabel(diagnostic).span # Undefined

\* Math.min(span.offset + span.length, code.length)
spanEnd(text, span) ==
  IF span.offset + span.length <= Len(text) THEN span.offset + span.length ELSE Len(text)

\* the descriptor reported for a diagnostic whose span is located
lintReport(text, diagnostic) ==
  LET span == firstLabel(diagnostic).span
  IN  [loc |-> [start |-> getLocFromIndex(text, span.offset),
                end |-> getLocFromIndex(text, spanEnd(text, span))],
       message |-> <<diagnostic.message, " (", diagnostic.code, ")">>]

InvalidSpan(diagnostic) == <<"Invalid span for ", diagnostic.code>>

ErrorRunningOxlint == <<"Error running oxlint">>

RECURSIVE forward_stopAtInvalidSpan(_, _)
forward_stopAtInvalidSpan(text, diagnostics) ==
  IF diagnostics = <<>> THEN [reports |-> <<>>, warnings |-> <<>>]
  ELSE LET d == Head(diagnostics)
           rest == forward_stopAtInvalidSpan(text, Tail(diagnostics))
       IN  IF ~hasSpan(d) THEN rest
           ELSE IF ~locatable(text, firstLabel(d).span.offset)
             THEN [reports |-> <<>>, warnings |-> <<InvalidSpan(d)>>]
           ELSE [reports |-> <<lintReport(text, d)>> \o rest.reports,
                 warnings |-> rest.warnings]

\* the loop over result.diagnostics: the reports and warnings it makes
RECURSIVE forward(_, _)
forward(text, diagnostics) ==
  IF diagnostics = <<>> THEN [reports |-> <<>>, warnings |-> <<>>]
  ELSE LET d == Head(diagnostics)
           rest == forward(text, Tail(diagnostics))
       IN  IF ~hasSpan(d) THEN rest
           ELSE IF ~locatable(text, firstLabel(d).span.offset)
             THEN [reports |-> rest.reports,
                   warnings |-> <<InvalidSpan(d)>> \o rest.warnings]
           ELSE [reports |-> <<lintReport(text, d)>> \o rest.reports,
                 warnings |-> rest.warnings]

\* diffs.some(([mode]) => mode !== 0)
hasChanges(ds) == \E i \in 1..Len(ds) : ds[i].op # diff_EQUAL

\* the descriptor of the formatting report
fixableReport ==
  [loc |-> [line |-> 1, column |-> 0],
   message |-> <<"Oxlint found fixable issues.">>,
   fix |-> "fix"]

\* fixer.removeRange(range)
removeRange(range) == [range |-> range, text |-> <<>>]

\* fixer.insertTextAfterRange(range, text): the text goes in at range[1]
insertTextAfterRange(range, text) == [range |-> <<range[2], range[2]>>, text |-> text]

RECURSIVE fix_insertAdvances(_, _)
fix_insertAdvances(ds, cursor) ==
  IF ds = <<>> THEN <<>>
  ELSE LET mode == Head(ds).op
           text == Head(ds).text
       IN  IF mode = diff_EQUAL
             THEN fix_insertAdvances(Tail(ds), cursor + Len(text))
           ELSE IF mode = diff_DELETE
             THEN <<removeRange(<<cursor, cursor + Len(text)>>)>>
                  \o fix_insertAdvances(Tail(ds), cursor + Len(text))
           ELSE IF mode = diff_INSERT
             THEN <<insertTextAfterRange(<<cursor, cursor>>, text)>>
                  \o fix_insertAdvances(Tail(ds), cursor + Len(text))
           ELSE fix_insertAdvances(Tail(ds), cursor)

\* fix(fixer): the loop over diffs from the given cursor on
RECURSIVE fix(_, _)
fix(ds, cursor) ==
  IF ds = <<>> THEN <<>>
  ELSE LET mode == Head(ds).op
           text == Head(ds).text
       IN  IF mode = diff_EQUAL
             THEN fix(Tail(ds), cursor + Len(text))
           ELSE IF mode = diff_DELETE
             THEN <<removeRange(<<cursor, cursor + Len(text)>>)>>
                  \o fix(Tail(ds), cursor + Len(text))
           ELSE IF mode = diff_INSERT
             THEN <<insertTextAfterRange(<<cursor, cursor>>, text)>>
                  \o fix(Tail(ds), cursor)
           ELSE fix(Tail(ds), cursor)

(***************************************************************************)
(* resolveOxlintConfigFile: paths and the file system it looks at.         *)
(***************************************************************************)
\* A path is absolute or relative and has a sequence of segments; the
\* relative path with no segment is '.', the absolute one is the root.
Path(abs, parts) == [abs |-> abs, parts |-> parts]

dirname_same(p) == p

\* path.dirname(p): the root and '.' are their own parent
dirname(p) ==
  IF p.parts = <<>> THEN p
  ELSE Path(p.abs, SubSeq(p.parts, 1, Len(p.parts) - 1))

\* path.join(dir, name)
join(dir, name) == Path(dir.abs, Append(dir.parts, name))

\* the absolute path the file system resolves p to, in working directory wd
absolute(wd, p) == IF p.abs THEN p ELSE Path(TRUE, wd.parts \o p.parts)

\* fs.accessSync(p) does not throw
accessSync(files, wd, p) == absolute(wd, p) \in files

(***************************************************************************)
(* State.                                                                  *)
(***************************************************************************)
VARIABLES
  source,        \* generateDifferences argument
  oxlintSource,  \* generateDifferences argument
  results,       \* the raw ops not yet shifted
  differences,   \* the edits pushed so far
  batch,         \* the current batch
  offset,        \* cursor into source
  pc,            \* "loop", "returned" or "thrown"
  flushes,       \* number of calls of flush() so far
  pushes,        \* number of batch.push() calls so far
  script,        \* the value diff() returned
  base,          \* mergeConfigs argument
  override,      \* mergeConfigs argument
  merged,        \* the value mergeConfigs returned
  mpc,           \* "idle", "call", "done" or "again"
  heap,          \* the objects
  baseRef,       \* mergeConfigs argument, by reference
  overrideRef,   \* mergeConfigs argument, by reference
  mergedRef,     \* the value mergeConfigs returned, by reference
  mergedAgain,   \* mergeConfigs(merged, override), the override applied once more
  config,        \* lint/format argument: the inline rule options
  rcFile,        \* the nearest .oxlintrc.json: none, unreadable or its JSON
  finalConfig,   \* lint/format local
  configArg,     \* what --config of the oxlint invocation points to
  lpc,           \* "idle", "call", "lint" or "format"
  fault,         \* the step of the lint/format call that throws, or "none"
  tempFiles,     \* the module's set of tracked temp files
  created,       \* the temp files the call has written
  unlinked,      \* the temp files unlinkSync was called on
  outcome,       \* "none", "returned" or "threw"
  str,           \* showInvisibles argument, as UTF-16 code units
  ret,           \* the value showInvisibles returned
  spc,           \* "idle", "call" or "done"
  code,          \* sourceCode.getText()
  lintOutcome,   \* what lint(code, filePath, options) does
  formatOutcome, \* what format(code, filePath, options) does
  diffs,         \* the value diff(code, formattedCode) returned
  reports,       \* the descriptors given to context.report, in order
  warnings,      \* the console.warn calls, in order
  fixResults,    \* the value fix(fixer) returned
  rpc,           \* "idle", "call", "reported" or "fixed"
  startPath,     \* resolveOxlintConfigFile argument
  cwd,           \* process.cwd()
  files,         \* the absolute paths that exist
  currentDir,    \* resolveOxlintConfigFile local
  resolved,      \* the value resolveOxlintConfigFile returned
  wpc,           \* "idle", "loop" or "returned"
  other          \* the locals of a second generateDifferences call

diffVars == <<source, oxlintSource, results, differences, batch, offset, pc, flushes, pushes, script>>

mergeVars == <<base, override, merged, mpc, heap, baseRef, overrideRef, mergedRef, mergedAgain>>

lintVars ==
  <<config, rcFile, finalConfig, configArg, lpc, fault, tempFiles, created, unlinked, outcome>>

showVars == <<str, ret, spc>>

ruleVars == <<code, lintOutcome, formatOutcome, diffs, reports, warnings, fixResults, rpc>>

resolveVars == <<startPath, cwd, files, currentDir, resolved, wpc>>

callVars == <<other>>

vars == <<diffVars, mergeVars, lintVars, showVars, ruleVars, resolveVars, callVars>>

\* the arguments and locals of the generateDifferences call that is running
Locals ==
  [source |-> source, oxlintSource |-> oxlintSource, script |-> script,
   results |-> results, differences |-> differences, batch |-> batch,
   offset |-> offset, pc |-> pc, flushes |-> flushes, pushes |-> pushes]

\* the arguments and locals of a call on the texts s and t at its start
LocalsAtStart(s, t, r) ==
  [source |-> s, oxlintSource |-> t, script |-> r,
   results |-> r, differences |-> <<>>, batch |-> <<>>,
   offset |-> 0, pc |-> "loop", flushes |-> 0, pushes |-> 0]

\* no second call
NoOther ==
  other = [source |-> <<>>, oxlintSource |-> <<>>, script |-> <<>>,
           results |-> <<>>, differences |-> <<>>, batch |-> <<>>,
           offset |-> 0, pc |-> "idle", flushes |-> 0, pushes |-> 0]

\* no call of resolveOxlintConfigFile
NoResolve ==
  /\ startPath = Path(FALSE, <<>>)
  /\ cwd = Path(TRUE, <<>>)
  /\ files = {}
  /\ currentDir = Path(FALSE, <<>>)
  /\ resolved = Null
  /\ wpc = "idle"

\* no call of generateDifferences
NoDiff ==
  /\ source = <<>>
  /\ oxlintSource = <<>>
  /\ script = <<>>
  /\ results = <<>>
  /\ differences = <<>>
  /\ batch = <<>>
  /\ offset = 0
  /\ pc = "idle"
  /\ flushes = 0
  /\ pushes = 0

\* no call of showInvisibles
NoShow ==
  /\ str = <<>>
  /\ ret = <<>>
  /\ spc = "idle"

\* no Program visit of the rule
NoRule ==
  /\ code = <<>>
  /\ lintOutcome = [kind |-> "none"]
  /\ formatOutcome = [kind |-> "none"]
  /\ diffs = <<>>
  /\ reports = <<>>
  /\ warnings = <<>>
  /\ fixResults = <<>>
  /\ rpc = "idle"

\* no call of lint or format
NoLint ==
  /\ config = Undefined
  /\ rcFile = [kind |-> "none"]
  /\ finalConfig = Undefined
  /\ configArg = [kind |-> "none"]
  /\ lpc = "idle"
  /\ fault = "none"
  /\ tempFiles = {}
  /\ created = {}
  /\ unlinked = {}
  /\ outcome = "none"

\* no call of mergeConfigs
NoMerge ==
  /\ base = Undefined
  /\ override = Undefined
  /\ merged = Undefined
  /\ mpc = "idle"
  /\ heap = <<>>
  /\ baseRef = Undefined
  /\ overrideRef = Undefined
  /\ mergedRef = Undefined
  /\ mergedAgain = Undefined

\* helper.js:79-83
Start(s, t, r) ==
  /\ source = s
  /\ oxlintSource = t
  /\ script = r
  /\ results = r
  /\ differences = <<>>
  /\ batch = <<>>
  /\ offset = 0
  /\ pc = "loop"
  /\ flushes = 0
  /\ pushes = 0
  /\ NoMerge
  /\ NoLint
  /\ NoShow
  /\ NoRule
  /\ NoResolve
  /\ NoOther

Init ==
  \E s \in Strings, t \in Strings : \E r \in diff(s, t) : Start(s, t, r)

\* helper.js:116-119, the end of every iteration: b, off, d, f are the batch,
\* offset, differences and flush count the switch left.
EndOfIteration(b, off, d, f) ==
  IF b # <<>> /\ Tail(results) = <<>>
    THEN /\ differences' = d \o flushEntry(b, off)
         /\ offset' = flushOffset(b, off)
         /\ batch' = <<>>
         /\ flushes' = f + 1
    ELSE /\ differences' = d
         /\ offset' = off
         /\ batch' = b
         /\ flushes' = f

\* helper.js:91-95
Change ==
  /\ pc = "loop"
  /\ results # <<>>
  /\ Head(results).op \in {diff_INSERT, diff_DELETE}
  /\ results' = Tail(results)
  /\ pushes' = pushes + 1
  /\ EndOfIteration(Append(batch, Head(results)), offset, differences, flushes)
  /\ UNCHANGED <<source, oxlintSource, pc, script, mergeVars, lintVars, showVars, ruleVars, resolveVars, callVars>>

\* helper.js:96-112
Equal ==
  /\ pc = "loop"
  /\ results # <<>>
  /\ Head(results).op = diff_EQUAL
  /\ results' = Tail(results)
  /\ LET text == Head(results).text
     IN  IF Tail(results) # <<>>
           THEN IF batch # <<>>
                  THEN IF LINE_ENDING_RE_test(text)
                         THEN /\ pushes' = pushes
                              /\ EndOfIteration(<<>>, advance(flushOffset(batch, offset), text),
                                                differences \o flushEntry(batch, offset),
                                                flushes + 1)
                         ELSE /\ pushes' = pushes + 1
                              /\ EndOfIteration(Append(batch, Head(results)), offset,
                                                differences, flushes)
                  ELSE /\ pushes' = pushes
                       /\ EndOfIteration(batch, advance(offset, text), differences, flushes)
           ELSE /\ pushes' = pushes
                /\ EndOfIteration(batch, offset, differences, flushes)
  /\ UNCHANGED <<source, oxlintSource, pc, script, mergeVars, lintVars, showVars, ruleVars, resolveVars, callVars>>

Unexpected_skip ==
  /\ pc = "loop"
  /\ results # <<>>
  /\ Head(results).op \notin KnownKinds
  /\ results' = Tail(results)
  /\ EndOfIteration(batch, offset, differences, flushes)
  /\ UNCHANGED <<source, oxlintSource, pc, pushes, script, mergeVars, lintVars, showVars, ruleVars, resolveVars, callVars>>

\* helper.js:113-114
Unexpected ==
  /\ pc = "loop"
  /\ results # <<>>
  /\ Head(results).op \notin KnownKinds
  /\ results' = Tail(results)
  /\ pc' = "thrown"
  /\ UNCHANGED <<source, oxlintSource, differences, batch, offset, flushes, pushes, script, mergeVars, lintVars, showVars, ruleVars, resolveVars, callVars>>

\* helper.js:86, 122
Return ==
  /\ pc = "loop"
  /\ results = <<>>
  /\ pc' = "returned"
  /\ UNCHANGED <<source, oxlintSource, results, differences, batch, offset, flushes, pushes, script, mergeVars, lintVars, showVars, ruleVars, resolveVars, callVars>>

Next == Change \/ Equal \/ Return

Spec == Init /\ [][Next]_vars

(***************************************************************************)
(* Two calls of generateDifferences whose steps interleave: the call that  *)
(* is running is in the variables, the one that waits is in other.         *)
(***************************************************************************)
InitTwo ==
  /\ \E s \in StringsUpTo(Alphabet, MaxTwoLen), t \in StringsUpTo(Alphabet, MaxTwoLen) :
       \E r \in diff(s, t) :
         /\ source = s
         /\ oxlintSource = t
         /\ script = r
         /\ results = r
  /\ differences = <<>>
  /\ batch = <<>>
  /\ offset = 0
  /\ pc = "loop"
  /\ flushes = 0
  /\ pushes = 0
  /\ \E s \in StringsUpTo(RawAlphabet, MaxOtherLen), t \in StringsUpTo(RawAlphabet, MaxOtherLen) :
       \E r \in diff(s, t) : other = LocalsAtStart(s, t, r)
  /\ NoMerge
  /\ NoLint
  /\ NoShow
  /\ NoRule
  /\ NoResolve

Switch_sharedBatch ==
  /\ other' = [Locals EXCEPT !.batch = other.batch, !.offset = other.offset]
  /\ source' = other.source
  /\ oxlintSource' = other.oxlintSource
  /\ script' = other.script
  /\ results' = other.results
  /\ differences' = other.differences
  /\ pc' = other.pc
  /\ flushes' = other.flushes
  /\ pushes' = other.pushes
  /\ UNCHANGED <<batch, offset, mergeVars, lintVars, showVars, ruleVars, resolveVars>>

\* The running call waits and the waiting call runs: results, differences,
\* batch and offset are locals of the call, so each call finds its own.
Switch ==
  /\ other' = Locals
  /\ source' = other.source
  /\ oxlintSource' = other.oxlintSource
  /\ script' = other.script
  /\ results' = other.results
  /\ differences' = other.differences
  /\ batch' = other.batch
  /\ offset' = other.offset
  /\ pc' = other.pc
  /\ flushes' = other.flushes
  /\ pushes' = other.pushes
  /\ UNCHANGED <<mergeVars, lintVars, showVars, ruleVars, resolveVars>>

NextTwo == Change \/ Equal \/ Return \/ Switch

SpecTwo == InitTwo /\ [][NextTwo]_vars

(***************************************************************************)
(* Free raw scripts: the coalescer run on any sequence of raw ops, the     *)
(* kinds fast-diff never produces and empty texts included.                *)
(***************************************************************************)
RawOps ==
  { RawOp(k, x) : k \in KnownKinds \cup {diff_UNKNOWN}, x \in StringsUpTo(RawAlphabet, MaxRawText) }

RawScripts == UNION {[1..n -> RawOps] : n \in 0..MaxRawOps}

InitRaw ==
  \E r \in RawScripts : Start(OldSide(r), NewSide(r), r)

NextRaw == Change \/ Equal \/ Unexpected \/ Return

SpecRaw == InitRaw /\ [][NextRaw]_vars

(***************************************************************************)
(* mergeConfigs called on two configurations, each absent (null or         *)
(* undefined) or an object of at most MaxEntries properties in all.        *)
(***************************************************************************)
Keys == {"rules", "plugins"}

\* the values that are not objects
Atoms == {Num(1), Num(2), Null, Arr(<<Num(1)>>)}

\* The property maps over the keys ks with n properties in all, nested
\* objects' properties counted.
RECURSIVE PropsOfSize(_, _)
PropsOfSize(ks, n) ==
  IF ks = {} THEN (IF n = 0 THEN {<<>>} ELSE {})
  ELSE LET k == CHOOSE x \in ks : TRUE
           rest == ks \ {k}
       IN  PropsOfSize(rest, n)
           \cup UNION { UNION { { (k :> v) @@ f : f \in PropsOfSize(rest, n - 1 - m) } :
                                 v \in (IF m = 0 THEN Atoms ELSE {})
                                        \cup { Obj(q) : q \in PropsOfSize(Keys, m) } } :
                         m \in 0..(n - 1) }

Trees == UNION { { Obj(q) : q \in PropsOfSize(Keys, n) } : n \in 0..MaxEntries }

Absent == {Null, Undefined}

InitMerge ==
  /\ NoDiff
  /\ base \in Trees \cup Absent
  /\ override \in Trees \cup Absent
  /\ merged = Undefined
  /\ mpc = "call"
  /\ LET b == store(<<>>, base)
         o == store(b.h, override)
     IN  /\ heap = o.h
         /\ baseRef = b.v
         /\ overrideRef = o.v
  /\ mergedRef = Undefined
  /\ mergedAgain = Undefined
  /\ NoLint
  /\ NoShow
  /\ NoRule
  /\ NoResolve
  /\ NoOther

Merge ==
  /\ mpc = "call"
  /\ merged' = mergeConfigs(base, override)
  /\ LET r == mergeConfigsOnHeap(heap, baseRef, overrideRef)
     IN  /\ heap' = r.h
         /\ mergedRef' = r.v
  /\ mpc' = "done"
  /\ UNCHANGED <<base, override, baseRef, overrideRef, mergedAgain, diffVars, lintVars, showVars, ruleVars, resolveVars, callVars>>

\* mergeConfigs(merged, override): the result merged with the same override
MergeAgain ==
  /\ mpc = "done"
  /\ mergedAgain' = mergeConfigs(merged, override)
  /\ mpc' = "again"
  /\ UNCHANGED <<base, override, merged, heap, baseRef, overrideRef, mergedRef, diffVars, lintVars, showVars, ruleVars, resolveVars, callVars>>

NextMerge == Merge \/ MergeAgain

SpecMerge == InitMerge /\ [][NextMerge]_vars

(***************************************************************************)
(* lint and format called with inline options and a .oxlintrc.json that is *)
(* absent, unreadable or holds a JSON value.                               *)
(***************************************************************************)
ConfigTrees == UNION { { Obj(q) : q \in PropsOfSize(Keys, n) } : n \in 0..MaxConfigEntries }

RcFiles == {NoRcFile, UnreadableRcFile} \cup { JsonRcFile(v) : v \in ConfigTrees \cup {Null} }

InitLint ==
  /\ NoDiff
  /\ NoMerge
  /\ config \in ConfigTrees
  /\ rcFile \in RcFiles
  /\ finalConfig = Undefined
  /\ configArg = [kind |-> "none"]
  /\ lpc = "call"
  /\ fault \in Faults
  /\ tempFiles = {}
  /\ created = {}
  /\ unlinked = {}
  /\ outcome = "none"
  /\ NoShow
  /\ NoRule
  /\ NoResolve
  /\ NoOther

\* The body shared by lint and format: the final configuration, the
\* --config argument if the call gets as far as running oxlint, the temp
\* files written and the finally block.
Call ==
  LET final == finalConfigOf(config, rcFile)
      arg == configArgOf(final, rcFile)
      r == callOf(fault, arg, tempFiles)
  IN  /\ finalConfig' = IF fault = "ensureTempDir" THEN Undefined ELSE final
      /\ configArg' = IF reachesOxlint(fault, arg) THEN arg ELSE [kind |-> "none"]
      /\ created' = r.created
      /\ tempFiles' = r.tempFiles
      /\ unlinked' = r.unlinked
      /\ outcome' = IF throws(fault, arg) THEN "threw" ELSE "returned"

\* lint(code, filePath, config)
lint ==
  /\ lpc = "call"
  /\ Call
  /\ lpc' = "lint"
  /\ UNCHANGED <<config, rcFile, fault, diffVars, mergeVars, showVars, ruleVars, resolveVars, callVars>>

\* format(code, filePath, config)
format ==
  /\ lpc = "call"
  /\ Call
  /\ lpc' = "format"
  /\ UNCHANGED <<config, rcFile, fault, diffVars, mergeVars, showVars, ruleVars, resolveVars, callVars>>

NextLint == lint \/ format

SpecLint == InitLint /\ [][NextLint]_vars

(***************************************************************************)
(* showInvisibles called on a string of at most MaxStrLen code units.      *)
(***************************************************************************)
CodeUnits == {" ", "\n", "\t", "\r", "a", NoBreakSpace, HighSurrogate, LowSurrogate}

InitShow ==
  /\ NoDiff
  /\ NoMerge
  /\ NoLint
  /\ NoRule
  /\ NoResolve
  /\ NoOther
  /\ str \in StringsUpTo(CodeUnits, MaxStrLen)
  /\ ret = <<>>
  /\ spc = "call"

Show ==
  /\ spc = "call"
  /\ ret' = showInvisibles(str)
  /\ spc' = "done"
  /\ UNCHANGED <<str, diffVars, mergeVars, lintVars, ruleVars, resolveVars, callVars>>

NextShow == Show

SpecShow == InitShow /\ [][NextShow]_vars

(***************************************************************************)
(* The rule visiting a Program of at most MaxCodeLen characters, with lint *)
(* and format each throwing or returning.                                  *)
(***************************************************************************)
Codes == StringsUpTo(Alphabet, MaxCodeLen)

\* spans that start at the first character, at the second one or past the end
Spans == { [offset |-> o, length |-> 2] : o \in {0, 1, MaxCodeLen + 1} }

Labels == {<<>>, <<[span |-> Undefined]>>} \cup { <<[span |-> sp]>> : sp \in Spans }

Diagnostics == { [labels |-> ls, message |-> "Mock Failure", code |-> "mock-fail"] : ls \in Labels }

LintOutcomes ==
  {[kind |-> "throws"], [kind |-> "empty"]}
    \cup { [kind |-> "diagnostics", diagnostics |-> ds] :
             ds \in UNION { [1..n -> Diagnostics] : n \in 0..MaxDiagnostics } }

FormatOutcomes ==
  {[kind |-> "throws", message |-> "oxlint process failed"]} \cup { [kind |-> "returns", text |-> t] : t \in Codes }

InitRule ==
  /\ NoDiff
  /\ NoMerge
  /\ NoLint
  /\ NoShow
  /\ NoResolve
  /\ NoOther
  /\ code \in Codes
  /\ lintOutcome \in LintOutcomes
  /\ formatOutcome \in FormatOutcomes
  /\ diffs = <<>>
  /\ reports = <<>>
  /\ warnings = <<>>
  /\ fixResults = <<>>
  /\ rpc = "call"

\* Program(): lint and its diagnostics, then format and the fixable report
Program ==
  /\ rpc = "call"
  /\ rpc' = "reported"
  /\ UNCHANGED <<code, lintOutcome, formatOutcome, fixResults, diffVars, mergeVars, lintVars, showVars, resolveVars, callVars>>
  /\ IF lintOutcome.kind = "throws"
       THEN /\ reports' = <<>>
            /\ warnings' = <<ErrorRunningOxlint>>
            /\ diffs' = <<>>
     ELSE LET linted == IF lintOutcome.kind = "diagnostics"
                          THEN forward(code, lintOutcome.diagnostics)
                        ELSE [reports |-> <<>>, warnings |-> <<>>]
          IN  IF formatOutcome.kind = "throws"
                THEN /\ reports' = linted.reports
                     /\ warnings' = linted.warnings \o <<ErrorRunningOxlint>>
                     /\ diffs' = <<>>
              ELSE IF formatOutcome.text = code
                THEN /\ reports' = linted.reports
                     /\ warnings' = linted.warnings
                     /\ diffs' = <<>>
              ELSE \E ds \in diff(code, formatOutcome.text) :
                     /\ diffs' = ds
                     /\ warnings' = linted.warnings
                     /\ reports' = IF hasChanges(ds)
                                     THEN linted.reports \o <<fixableReport>>
                                   ELSE linted.reports

\* ESLint calls the fix function of the formatting report
Fix ==
  /\ rpc = "reported"
  /\ \E i \in 1..Len(reports) : "fix" \in DOMAIN reports[i]
  /\ fixResults' = fix(diffs, 0)
  /\ rpc' = "fixed"
  /\ UNCHANGED <<code, lintOutcome, formatOutcome, diffs, reports, warnings, diffVars, mergeVars, lintVars, showVars, resolveVars, callVars>>

NextRule == Program \/ Fix

SpecRule == InitRule /\ [][NextRule]_vars

(***************************************************************************)
(* resolveOxlintConfigFile called in a chain of at most MaxDepth nested    *)
(* directories, each with or without a .oxlintrc.json, on an absolute or a *)
(* relative path.                                                          *)
(***************************************************************************)
\* the directory k levels below the root: /d/d/.../d
Chain(k) == [i \in 1..k |-> "d"]

RcPaths == { Path(TRUE, Append(Chain(k), ".oxlintrc.json")) : k \in 0..MaxDepth }

InitResolve ==
  /\ NoDiff
  /\ NoMerge
  /\ NoLint
  /\ NoShow
  /\ NoRule
  /\ NoOther
  /\ files \in SUBSET RcPaths
  /\ cwd \in { Path(TRUE, Chain(k)) : k \in 0..MaxDepth }
  /\ startPath \in
       { Path(TRUE, Append(Chain(k), "file.js")) : k \in 0..MaxDepth }
         \cup { Path(FALSE, Append(Chain(k), "file.js")) : k \in 0..(MaxDepth - Len(cwd.parts)) }
  /\ currentDir = dirname(startPath)
  /\ resolved = Null
  /\ wpc = "loop"

\* accessSync(configPath) passes: return configPath
Found ==
  /\ wpc = "loop"
  /\ accessSync(files, cwd, join(currentDir, ".oxlintrc.json"))
  /\ resolved' = join(currentDir, ".oxlintrc.json")
  /\ wpc' = "returned"
  /\ UNCHANGED <<startPath, cwd, files, currentDir, diffVars, mergeVars, lintVars, showVars, ruleVars, callVars>>

\* not found and parentDir !== currentDir: go up
GoUp ==
  /\ wpc = "loop"
  /\ ~accessSync(files, cwd, join(currentDir, ".oxlintrc.json"))
  /\ dirname(currentDir) # currentDir
  /\ currentDir' = dirname(currentDir)
  /\ UNCHANGED <<startPath, cwd, files, resolved, wpc, diffVars, mergeVars, lintVars, showVars, ruleVars, callVars>>

\* not found and parentDir === currentDir: return null
ReachedRoot ==
  /\ wpc = "loop"
  /\ ~accessSync(files, cwd, join(currentDir, ".oxlintrc.json"))
  /\ dirname(currentDir) = currentDir
  /\ resolved' = Null
  /\ wpc' = "returned"
  /\ UNCHANGED <<startPath, cwd, files, currentDir, diffVars, mergeVars, lintVars, showVars, ruleVars, callVars>>

NextResolve == Found \/ GoUp \/ ReachedRoot

\* the loop is synchronous code: an iteration that can run does run
SpecResolve == InitResolve /\ [][NextResolve]_vars /\ WF_vars(NextResolve)

(***************************************************************************)
(* Reading the result.                                                     *)
(***************************************************************************)
\* s.substring(from, to)
substring(s, from, to) == SubSeq(s, from + 1, to)

deleteTextOf(e) == IF e.operation = INSERT THEN <<>> ELSE e.deleteText

insertTextOf(e) == IF e.operation = DELETE THEN <<>> ELSE e.insertText

\* The text obtained from src by applying the edits, each at its offset in
\* src: the text from cursor up to the edit is copied, deleteText is
\* skipped and insertText is put in its place.
RECURSIVE ApplyEdits(_, _, _)
ApplyEdits(src, edits, cursor) ==
  IF edits = <<>> THEN SubSeq(src, cursor + 1, Len(src))
  ELSE LET e == Head(edits)
       IN  SubSeq(src, cursor + 1, e.offset)
           \o insertTextOf(e)
           \o ApplyEdits(src, Tail(edits), e.offset + Len(deleteTextOf(e)))

\* number of raw ops already shifted off results
consumed == Len(script) - Len(results)

IsChange(o) == o.op \in {diff_INSERT, diff_DELETE}

ChangeIndexes(r) == { i \in 1..Len(r) : IsChange(r[i]) }

Min(S) == CHOOSE x \in S : \A y \in S : x <= y

Max(S) == CHOOSE x \in S : \A y \in S : x >= y

\* offset in the source text at which raw op i of r begins
OldPos(r, i) == Len(OldSide(SubSeq(r, 1, i - 1)))

\* the text contains "\r\n", "\n", "\r", U+2028 or U+2029
ContainsLineEnding(text) == \E i \in 1..Len(text) : text[i] \in {"\n", "\r", "LS", "PS"}

\* raw op k of r is unchanged text with a line ending in it
Boundary(r, k) == r[k].op = diff_EQUAL /\ ContainsLineEnding(r[k].text)

SameLine(r, i, j) == \A k \in i..j : ~Boundary(r, k)

\* The maximal spans i..j of r that begin and end with an INSERT or DELETE
\* and hold no unchanged text with a line ending.
Runs(r) ==
  { run \in ChangeIndexes(r) \X ChangeIndexes(r) :
      /\ run[1] <= run[2]
      /\ SameLine(r, run[1], run[2])
      /\ \A h \in ChangeIndexes(r) : h < run[1] => ~SameLine(r, h, run[1])
      /\ \A h \in ChangeIndexes(r) : h > run[2] => ~SameLine(r, run[2], h) }

(***************************************************************************)
(* C1. Round trip: when generateDifferences(source, target) has returned,  *)
(* applying its edits to source, each at its offset in the original        *)
(* source, gives exactly target.                                           *)
(***************************************************************************)
C1_RoundTrip ==
  pc = "returned" => ApplyEdits(source, differences, 0) = oxlintSource

\* two edits with unchanged source text between them
C1_Witness ==
  /\ pc = "returned"
  /\ Len(differences) = 2
  /\ differences[1].operation = REPLACE
  /\ differences[2].offset > differences[1].offset + Len(deleteTextOf(differences[1]))
  /\ ApplyEdits(source, differences, 0) = oxlintSource

(***************************************************************************)
(* C2. generateDifferences returns the empty list exactly when source and  *)
(* target are identical, and for identical strings nothing is ever pushed  *)
(* to the batch and flush is never called.                                 *)
(***************************************************************************)
C2_EmptyIffIdentical ==
  /\ pc = "returned" => ((differences = <<>>) <=> (source = oxlintSource))
  /\ source = oxlintSource => (batch = <<>> /\ pushes = 0 /\ flushes = 0)

C2_Witness ==
  /\ pc = "returned"
  /\ source = oxlintSource
  /\ Len(source) = MaxLen
  /\ consumed = 1
  /\ differences = <<>>
  /\ flushes = 0

(***************************************************************************)
(* C3. The edits are in ascending, non-overlapping order of offset: every  *)
(* edit ends (offset + length of deleteText, 0 for an insert) at or before *)
(* the offset of the next one.                                             *)
(***************************************************************************)
C3_AscendingNonOverlapping ==
  \A n \in 1..(Len(differences) - 1) :
    differences[n].offset + Len(deleteTextOf(differences[n])) <= differences[n + 1].offset

\* a delete followed by a later edit
C3_Witness ==
  /\ Len(differences) >= 2
  /\ differences[1].operation = DELETE
  /\ Len(differences[1].deleteText) >= 2
  /\ differences[1].offset + Len(differences[1].deleteText) <= differences[2].offset

(***************************************************************************)
(* C4. Every emitted edit is anchored to the original source: its offset   *)
(* lies in 0..len(source), and the deleteText of a delete or replace is    *)
(* the source text at that offset.                                         *)
(***************************************************************************)
C4_Anchored ==
  \A n \in 1..Len(differences) :
    LET e == differences[n]
    IN  /\ 0 <= e.offset
        /\ e.offset <= Len(source)
        /\ e.operation \in {DELETE, REPLACE} =>
              substring(source, e.offset, e.offset + Len(e.deleteText)) = e.deleteText

\* a replace that does not begin at offset 0 or 1
C4_Witness ==
  \E n \in 1..Len(differences) :
    /\ differences[n].operation = REPLACE
    /\ differences[n].offset >= 2
    /\ substring(source, differences[n].offset,
                 differences[n].offset + Len(differences[n].deleteText)) = differences[n].deleteText

(***************************************************************************)
(* C5. When one string is a proper prefix of the other, the result is one  *)
(* edit at the length of the shorter string: an insert of the added        *)
(* suffix, or a delete of the removed suffix.                              *)
(***************************************************************************)
C5_ProperPrefix ==
  pc = "returned" /\ source # oxlintSource =>
    /\ startsWith(oxlintSource, source) =>
          differences = << [offset |-> Len(source), operation |-> INSERT,
                            insertText |-> SubSeq(oxlintSource, Len(source) + 1, Len(oxlintSource))] >>
    /\ startsWith(source, oxlintSource) =>
          differences = << [offset |-> Len(oxlintSource), operation |-> DELETE,
                            deleteText |-> SubSeq(source, Len(oxlintSource) + 1, Len(source))] >>

\* a non-empty source extended by a suffix
C5_Witness ==
  /\ pc = "returned"
  /\ Len(source) >= 2
  /\ source # oxlintSource
  /\ startsWith(oxlintSource, source)
  /\ Len(differences) = 1
  /\ differences[1].operation = INSERT
  /\ differences[1].offset = Len(source)

(***************************************************************************)
(* C6. Same-line batching: raw INSERT/DELETE ops separated only by         *)
(* unchanged text without a line ending are reported as exactly one edit,  *)
(* whose deleteText and insertText both include that unchanged text.  So   *)
(* the result has one edit per maximal span of the raw script that begins  *)
(* and ends with a change and holds no unchanged text with a line ending:  *)
(* the edit begins where the span begins in the source, its deleteText is  *)
(* the span's source text and its insertText the span's target text; a     *)
(* span of more than one change separated by unchanged text is a replace.  *)
(***************************************************************************)
C6_SameLineBatching ==
  pc = "returned" =>
    /\ Len(differences) = Cardinality(Runs(script))
    /\ \A run \in Runs(script) :
          LET span == SubSeq(script, run[1], run[2])
          IN  \E n \in 1..Len(differences) :
                /\ differences[n].offset = OldPos(script, run[1])
                /\ deleteTextOf(differences[n]) = OldSide(span)
                /\ insertTextOf(differences[n]) = NewSide(span)
                /\ (\E k \in 1..Len(span) : span[k].op = diff_EQUAL) =>
                      differences[n].operation = REPLACE

\* two inserts joined by unchanged text on one line, reported as one replace
C6_Witness ==
  /\ pc = "returned"
  /\ Len(script) >= 3
  /\ \E i \in 1..(Len(script) - 2) :
        /\ script[i].op = diff_INSERT
        /\ script[i + 1].op = diff_EQUAL
        /\ ~ContainsLineEnding(script[i + 1].text)
        /\ script[i + 2].op = diff_INSERT
  /\ Len(differences) = 1
  /\ differences[1].operation = REPLACE

(***************************************************************************)
(* C7. A single contiguous replacement: when the raw script is             *)
(* [EQUAL p, DELETE d, INSERT i, EQUAL s], p and s possibly absent, the    *)
(* result is exactly one replace with offset len(p), deleteText d and      *)
(* insertText i.                                                           *)
(***************************************************************************)
IsContiguousReplacement(r, c) ==
  /\ Len(r) >= c + 1
  /\ c = 2 => r[1].op = diff_EQUAL
  /\ r[c].op = diff_DELETE
  /\ r[c].text # <<>>
  /\ r[c + 1].op = diff_INSERT
  /\ r[c + 1].text # <<>>
  /\ \/ Len(r) = c + 1
     \/ Len(r) = c + 2 /\ r[c + 2].op = diff_EQUAL

C7_ContiguousReplace ==
  pc = "returned" =>
    \A c \in 1..2 :
      IsContiguousReplacement(script, c) =>
        differences = << [offset |-> IF c = 2 THEN Len(script[1].text) ELSE 0,
                          operation |-> REPLACE,
                          insertText |-> script[c + 1].text,
                          deleteText |-> script[c].text] >>

\* unchanged text on both sides of the replacement
C7_Witness ==
  /\ pc = "returned"
  /\ Len(script) = 4
  /\ IsContiguousReplacement(script, 2)
  /\ Len(differences) = 1
  /\ differences[1].operation = REPLACE
  /\ differences[1].offset = Len(script[1].text)

(***************************************************************************)
(* C8. An unrecognized raw-op kind is fatal: generateDifferences throws    *)
(* when it reaches the first element whose kind is not EQUAL, INSERT or    *)
(* DELETE, and never returns an edit list for such a script.               *)
(***************************************************************************)
C8_ThrowOnUnknownKind ==
  /\ pc = "returned" => \A i \in 1..Len(script) : script[i].op \in KnownKinds
  /\ (consumed > 0 /\ script[consumed].op \notin KnownKinds) => pc = "thrown"
  /\ pc = "thrown" =>
        /\ consumed > 0
        /\ script[consumed].op \notin KnownKinds
        /\ \A i \in 1..(consumed - 1) : script[i].op \in KnownKinds

\* thrown at the last element, after a change was batched
C8_Witness ==
  /\ pc = "thrown"
  /\ consumed = 3
  /\ script[1].op = diff_DELETE
  /\ script[2].op = diff_EQUAL
  /\ script[3].op = diff_UNKNOWN

(***************************************************************************)
(* C9 as stated: edits never span a line break, no emitted edit's          *)
(* deleteText or insertText extends across a line ending from one line     *)
(* into the next.                                                          *)
(***************************************************************************)
\* the text has a line ending with more text after it
SpansLineBreak(text) ==
  \E i \in 1..Len(text) :
    /\ text[i] \in {"\n", "\r", "LS", "PS"}
    /\ \/ i + 1 < Len(text)
       \/ i + 1 = Len(text) /\ ~(text[i] = "\r" /\ text[i + 1] = "\n")

C9_NoEditSpansLineBreak ==
  \A n \in 1..Len(differences) :
    /\ ~SpansLineBreak(deleteTextOf(differences[n]))
    /\ ~SpansLineBreak(insertTextOf(differences[n]))

(***************************************************************************)
(* C9 amended: no emitted edit covers unchanged text that contains a line  *)
(* ending.  The source range of every edit lies entirely before or         *)
(* entirely after the source range of every EQUAL op whose text has a line *)
(* ending; an INSERT or DELETE text that itself contains a line ending is  *)
(* reported whole.                                                         *)
(***************************************************************************)
C9_NoEditCoversUnchangedLineEnding ==
  \A n \in 1..Len(differences) :
    \A k \in 1..Len(script) :
      Boundary(script, k) =>
        \/ differences[n].offset + Len(deleteTextOf(differences[n])) <= OldPos(script, k)
        \/ differences[n].offset >= OldPos(script, k) + Len(script[k].text)

\* edits on both sides of an unchanged line ending, one of them spanning
\* a line break of its own
C9_Witness ==
  /\ pc = "returned"
  /\ Len(differences) = 2
  /\ \E k \in 2..(Len(script) - 1) : Boundary(script, k)
  /\ \E n \in 1..2 : ContainsLineEnding(insertTextOf(differences[n]))


(***************************************************************************)
(* C10. mergeConfigs treats a null or undefined argument as an empty       *)
(* object, and the empty object is a two-sided identity: merging two       *)
(* absent arguments gives {}, merging a with an absent or empty override   *)
(* gives a, and merging an absent or empty base with b gives b.            *)
(***************************************************************************)
C10_MergeIdentity ==
  mpc = "done" =>
    /\ (base \in Absent /\ override \in Absent) => merged = EmptyObject
    /\ (base \in Trees /\ override \in Absent \cup {EmptyObject}) => merged = base
    /\ (base \in Absent \cup {EmptyObject} /\ override \in Trees) => merged = override

\* a nested configuration merged with null
C10_Witness ==
  /\ mpc = "done"
  /\ override = Null
  /\ base \in Trees
  /\ \E k \in keys(base) : base.props[k].t = "object" /\ keys(base.props[k]) # {}
  /\ merged = base

(***************************************************************************)
(* C11. Override precedence: for every key present in both base and        *)
(* override where at least one of the two values is not a non-array object *)
(* (a number, an array, null, or an object on one side only), the merged   *)
(* value is exactly the override's value: arrays are replaced wholesale    *)
(* and null replaces an object.                                            *)
(***************************************************************************)
IsPlainObject(v) == v.t = "object"

C11_OverridePrecedence ==
  (mpc = "done" /\ base \in Trees /\ override \in Trees) =>
    \A k \in keys(base) \cap keys(override) :
      (~IsPlainObject(base.props[k]) \/ ~IsPlainObject(override.props[k])) =>
        (k \in keys(merged) /\ merged.props[k] = override.props[k])

\* null in the override replaces a nested object of the base, and a
\* different number replaces a number
C11_Witness ==
  /\ mpc = "done"
  /\ base \in Trees
  /\ override \in Trees
  /\ \E k \in keys(base) \cap keys(override) :
        /\ IsPlainObject(base.props[k])
        /\ keys(base.props[k]) # {}
        /\ override.props[k] = Null
        /\ merged.props[k] = Null
  /\ \E k \in keys(base) \cap keys(override) :
        /\ base.props[k] = Num(1)
        /\ override.props[k] = Num(2)
        /\ merged.props[k] = Num(2)

(***************************************************************************)
(* C12. Merge recursion at every depth: the keys of the merged object are  *)
(* the union of the keys of both sides, a key of one side only carries     *)
(* that side's value, and where both sides hold non-array objects the      *)
(* merged value is related to them in the same way, at every nesting       *)
(* level.                                                                  *)
(***************************************************************************)
RECURSIVE IsDeepMerge(_, _, _)
IsDeepMerge(m, a, b) ==
  /\ IsPlainObject(m)
  /\ keys(m) = keys(a) \cup keys(b)
  /\ \A k \in keys(a) \ keys(b) : m.props[k] = a.props[k]
  /\ \A k \in keys(b) \ keys(a) : m.props[k] = b.props[k]
  /\ \A k \in keys(a) \cap keys(b) :
        (IsPlainObject(a.props[k]) /\ IsPlainObject(b.props[k])) =>
          IsDeepMerge(m.props[k], a.props[k], b.props[k])

C13_InputsNotMutated ==
  mpc = "done" =>
    /\ Deref(heap, baseRef) = base
    /\ Deref(heap, overrideRef) = override

\* both sides hold a nested object under the same key, so the call writes
\* a key the base has and recurses
C13_Witness ==
  /\ mpc = "done"
  /\ base \in Trees
  /\ override \in Trees
  /\ \E k \in keys(base) \cap keys(override) :
        /\ IsPlainObject(base.props[k])
        /\ IsPlainObject(override.props[k])
        /\ keys(override.props[k]) \ keys(base.props[k]) # {}
  /\ Deref(heap, mergedRef) # base
  /\ Deref(heap, baseRef) = base

(***************************************************************************)
(* C14. mergeConfigs returns a freshly owned result: the returned root     *)
(* object is never the same object as base or override; when one side is   *)
(* absent the result is a copy of the present side, not that object.       *)
(***************************************************************************)
C14_FreshResult ==
  mpc = "done" =>
    /\ mergedRef.t = "ref"
    /\ mergedRef # baseRef
    /\ mergedRef # overrideRef

\* what mergeConfigsOnHeap returns stands for the value of mergeConfigs
MergeOnHeapAgrees == mpc = "done" => Deref(heap, mergedRef) = merged

(***************************************************************************)
(* C15 as stated: inline rule options have higher priority than the        *)
(* .oxlintrc.json found for the file.  When both define the same key with  *)
(* values that are not both objects, at the top level or inside an object  *)
(* both define (rules['no-debugger']), the configuration handed to oxlint  *)
(* carries the inline option's value.                                      *)
(***************************************************************************)
Invoked ==
  /\ lpc \in {"lint", "format"}
  /\ reachesOxlint(fault, configArgOf(finalConfig, rcFile))

\* both define key k, with values that are not both objects
Conflict(a, b, k) ==
  /\ k \in keys(a) \cap keys(b)
  /\ ~(IsPlainObject(a.props[k]) /\ IsPlainObject(b.props[k]))

\* both define an object under key k
BothNested(a, b, k) ==
  /\ k \in keys(a) \cap keys(b)
  /\ IsPlainObject(a.props[k])
  /\ IsPlainObject(b.props[k])

\* The configuration cfg handed to oxlint carries, for every key both a and
\* b define, the value of winner (which is a or b).
Carries(cfg, a, b, winner) ==
  /\ \A k \in Keys :
        Conflict(a, b, k) =>
          /\ cfg.kind = "temp"
          /\ k \in keys(cfg.content)
          /\ cfg.content.props[k] = winner.props[k]
  /\ \A k \in Keys :
        BothNested(a, b, k) =>
          \A k2 \in Keys :
            Conflict(a.props[k], b.props[k], k2) =>
              /\ cfg.kind = "temp"
              /\ cfg.content.props[k].props[k2] = winner.props[k].props[k2]

C15_InlineOptionsWin ==
  (Invoked /\ rcFile.kind = "json" /\ rcFile.content # Null) =>
    Carries(configArg, config, rcFile.content, config)

C17_MalformedRcFileIgnored ==
  (Invoked /\ rcFile.kind = "unreadable") =>
    /\ finalConfig = config
    /\ configArg.kind # "path"
    /\ configArg.kind = "temp" => configArg.content = config

(***************************************************************************)
(* C18. showInvisibles maps each input character independently: space to   *)
(* U+00B7, newline to U+23CE, tab to U+21B9, carriage return to U+240D and *)
(* every other character, other Unicode whitespace included, to itself.    *)
(* The output has as many characters as the input, and the empty string    *)
(* maps to the empty string.                                               *)
(***************************************************************************)
C18_ShowInvisibles ==
  spc = "done" =>
    /\ Len(ret) = Len(str)
    /\ Len(elements(ret)) = Len(elements(str))
    /\ \A i \in 1..Len(str) :
          ret[i] = CASE str[i] = " " -> MiddleDot
                     [] str[i] = "\n" -> ReturnSymbol
                     [] str[i] = "\t" -> TabSymbol
                     [] str[i] = "\r" -> CRSymbol
                     [] OTHER -> str[i]
    /\ str = <<>> => ret = <<>>

\* a space, a no-break space and a newline: only the first and last change
C18_Witness ==
  /\ spc = "done"
  /\ str = <<" ", NoBreakSpace, "\n">>
  /\ ret = <<MiddleDot, NoBreakSpace, ReturnSymbol>>

(***************************************************************************)
(* C19. Auto-fix round trip: whenever format returns text different from   *)
(* the source, the rule reports a fixable problem.  The operations its fix *)
(* function returns are a removeRange for each raw Delete and an           *)
(* insertTextAfterRange for each raw Insert, with ranges in offsets of the *)
(* original source, ascending and non-overlapping, inserts not advancing   *)
(* the cursor; applying them to the source yields the formatted text.      *)
(***************************************************************************)
\* format was called and returned text different from the source
FormatChanged ==
  /\ lintOutcome.kind # "throws"
  /\ formatOutcome.kind = "returns"
  /\ formatOutcome.text # code

FixableReports == { i \in 1..Len(reports) : "fix" \in DOMAIN reports[i] }

\* index in r of its k-th INSERT or DELETE
NthChange(r, k) ==
  CHOOSE i \in ChangeIndexes(r) : Cardinality({ j \in ChangeIndexes(r) : j <= i }) = k

\* The text obtained from src by applying the fixes in order: the text from
\* cursor up to the range is copied, the range is skipped and the fix's text
\* is put in its place.
RECURSIVE ApplyFixes(_, _, _)
ApplyFixes(src, fixes, cursor) ==
  IF fixes = <<>> THEN SubSeq(src, cursor + 1, Len(src))
  ELSE LET f == Head(fixes)
       IN  SubSeq(src, cursor + 1, f.range[1])
           \o f.text
           \o ApplyFixes(src, Tail(fixes), f.range[2])

C19_FixRoundTrip ==
  /\ (rpc \in {"reported", "fixed"} /\ FormatChanged) => Cardinality(FixableReports) = 1
  /\ rpc = "fixed" =>
       /\ FormatChanged
       /\ Len(fixResults) = Cardinality(ChangeIndexes(diffs))
       /\ \A k \in 1..Len(fixResults) :
             LET i == NthChange(diffs, k)
                 at == OldPos(diffs, i)
             IN  fixResults[k] =
                   IF diffs[i].op = diff_DELETE
                     THEN [range |-> <<at, at + Len(diffs[i].text)>>, text |-> <<>>]
                   ELSE [range |-> <<at, at>>, text |-> diffs[i].text]
       /\ \A k \in 1..Len(fixResults) :
             /\ 0 <= fixResults[k].range[1]
             /\ fixResults[k].range[1] <= fixResults[k].range[2]
             /\ fixResults[k].range[2] <= Len(code)
       /\ \A k \in 1..(Len(fixResults) - 1) :
             fixResults[k].range[2] <= fixResults[k + 1].range[1]
       /\ ApplyFixes(code, fixResults, 0) = formatOutcome.text

\* an insertion, some kept text and then a removal and an insertion
C19_Witness ==
  /\ rpc = "fixed"
  /\ Len(fixResults) = 3
  /\ fixResults[1].range = <<0, 0>>
  /\ fixResults[2].range[1] > 0
  /\ fixResults[2].range[2] > fixResults[2].range[1]
  /\ fixResults[3].range = <<fixResults[2].range[2], fixResults[2].range[2]>>
  /\ fixResults[3].text # <<>>

(***************************************************************************)
(* C20 as stated: the rule reports each formatting difference separately.  *)
(* Every coalesced edit between the source and the formatted text becomes  *)
(* its own problem, whose messageId is the edit's operation: insert,       *)
(* delete or replace.                                                      *)
(***************************************************************************)
\* the reports that do not come from a lint diagnostic
FormattingReports == { i \in 1..Len(reports) : "start" \notin DOMAIN reports[i].loc }

C20_EachEditReported ==
  (rpc \in {"reported", "fixed"} /\ FormatChanged) =>
    /\ Cardinality(FormattingReports) = Cardinality(Runs(diffs))
    /\ \A i \in FormattingReports :
          /\ "messageId" \in DOMAIN reports[i]
          /\ reports[i].messageId \in {INSERT, DELETE, REPLACE}

(***************************************************************************)
(* C21 as stated: format errors are reported to ESLint.  When format fails *)
(* with an error e while the rule processes a file, the rule reports one   *)
(* problem with message 'oxlint error: ' + e.message located at line 1,    *)
(* column 0.                                                               *)
(***************************************************************************)
\* format was called and threw
FormatFailed ==
  /\ lintOutcome.kind # "throws"
  /\ formatOutcome.kind = "throws"

C21_FormatErrorReported ==
  (rpc = "reported" /\ FormatFailed) =>
    /\ Cardinality(FormattingReports) = 1
    /\ \A i \in FormattingReports :
          /\ reports[i].message = <<"oxlint error: ", formatOutcome.message>>
          /\ reports[i].loc = [line |-> 1, column |-> 0]

(***************************************************************************)
(* C22. Lint diagnostics are forwarded one to one: each diagnostic whose   *)
(* first label has a span gives exactly one problem with message           *)
(* '<message> (<code>)', from span.offset to min(span.offset +             *)
(* span.length, len(code)); a diagnostic without a first label or span     *)
(* gives none; a diagnostic whose span cannot be located is skipped with a *)
(* warning and the diagnostics after it are still forwarded.               *)
(***************************************************************************)
\* the reports that come from a lint diagnostic
LintReports == { i \in 1..Len(reports) : "start" \in DOMAIN reports[i].loc }

\* the diagnostics whose first label has a span
Spanned(ds) ==
  { i \in 1..Len(ds) : ds[i].labels # <<>> /\ ds[i].labels[1].span # Undefined }

\* those of them whose span starts inside the text
Located(ds) ==
  { i \in Spanned(ds) : ds[i].labels[1].span.offset <= Len(code) }

\* the k-th smallest member of the set S of numbers
Nth(S, k) == CHOOSE i \in S : Cardinality({ j \in S : j <= i }) = k

\* line and column of an offset of the text: the line is one more than
\* the number of line feeds before the offset, the column is the distance
\* from the last of them
LineOf(text, at) == 1 + Cardinality({ j \in 1..at : text[j] = "\n" })

ColumnOf(text, at) ==
  Cardinality({ j \in 1..at : \A m \in j..at : text[m] # "\n" })

C22_DiagnosticsForwarded ==
  (rpc \in {"reported", "fixed"} /\ lintOutcome.kind = "diagnostics") =>
    LET ds == lintOutcome.diagnostics
    IN  /\ Cardinality(LintReports) = Cardinality(Located(ds))
        /\ LintReports = 1..Cardinality(Located(ds))
        /\ \A k \in LintReports :
              LET d == ds[Nth(Located(ds), k)]
                  span == d.labels[1].span
                  to == Min({span.offset + span.length, Len(code)})
              IN  /\ reports[k].message = <<d.message, " (", d.code, ")">>
                  /\ reports[k].loc.start =
                       [line |-> LineOf(code, span.offset), column |-> ColumnOf(code, span.offset)]
                  /\ reports[k].loc.end =
                       [line |-> LineOf(code, to), column |-> ColumnOf(code, to)]
        /\ Cardinality({ i \in 1..Len(warnings) : warnings[i] # ErrorRunningOxlint })
             = Cardinality(Spanned(ds) \ Located(ds))

\* a diagnostic that cannot be located, then one on the second line
C22_Witness ==
  /\ rpc = "reported"
  /\ lintOutcome.kind = "diagnostics"
  /\ Len(lintOutcome.diagnostics) = 2
  /\ Spanned(lintOutcome.diagnostics) = {1, 2}
  /\ Located(lintOutcome.diagnostics) = {2}
  /\ LintReports = {1}
  /\ reports[1].loc.start.line = 2
  /\ reports[1].loc.end.column > reports[1].loc.start.column

(***************************************************************************)
(* C23 as stated: resolveOxlintConfigFile(startPath) walks upward from     *)
(* dirname(startPath) and returns the .oxlintrc.json of the nearest        *)
(* ancestor directory that has one, returns null when no directory up to   *)
(* the filesystem root has one, and the walk always terminates.            *)
(***************************************************************************)
\* the directories holding startPath, nearest first, as absolute paths
Ancestors(p) ==
  LET a == absolute(cwd, p)
  IN  { Path(TRUE, SubSeq(a.parts, 1, n)) : n \in 0..(Len(a.parts) - 1) }

\* the directories a walk from startPath names: those of the path as it
\* was given
Named(p) == { Path(p.abs, SubSeq(p.parts, 1, n)) : n \in 0..(Len(p.parts) - 1) }

HasRc(dir) == Path(TRUE, Append(absolute(cwd, dir).parts, ".oxlintrc.json")) \in files

\* the member of the set of directories dirs with the longest path
Nearest(dirs) == CHOOSE x \in dirs : \A y \in dirs : Len(y.parts) <= Len(x.parts)

\* what a walk over the directories dirs has to return
Expected(dirs) ==
  LET with == { x \in dirs : HasRc(x) }
  IN  IF with = {} THEN Null
      ELSE Path(Nearest(with).abs, Append(Nearest(with).parts, ".oxlintrc.json"))

\* the file the returned path names
ResolvedFile == IF resolved = Null THEN Null ELSE absolute(cwd, resolved)

C23_NearestAncestor ==
  <>(wpc = "returned" /\ ResolvedFile = Expected(Ancestors(startPath)))

(***************************************************************************)
(* C23, amended.  The walk always terminates.  For an absolute startPath   *)
(* it returns the .oxlintrc.json of the nearest ancestor directory that    *)
(* has one, null when none up to the root has one.  For a relative         *)
(* startPath it looks only at the directories the path names, down to '.', *)
(* and returns null when none of them has one: the directories above the   *)
(* working directory are not visited.                                      *)
(***************************************************************************)
C23_NearestNamedDirectory ==
  <>(/\ wpc = "returned"
     /\ resolved = Expected(Named(startPath))
     /\ startPath.abs => ResolvedFile = Expected(Ancestors(startPath)))

\* /d/d/d/file.js with a .oxlintrc.json in /d and in /: the one in /d
C23_Witness ==
  /\ wpc = "returned"
  /\ startPath = Path(TRUE, Append(Chain(3), "file.js"))
  /\ files = { Path(TRUE, <<".oxlintrc.json">>), Path(TRUE, <<"d", ".oxlintrc.json">>) }
  /\ resolved = Path(TRUE, <<"d", ".oxlintrc.json">>)
  /\ currentDir = Path(TRUE, <<"d">>)

(***************************************************************************)
(* C24. Invocations are independent: batch and offset are local to one     *)
(* call, so when the steps of two calls for different (source, target)     *)
(* pairs interleave, or the calls run one after the other in either order, *)
(* each call returns the edit list it returns when run alone.              *)
(***************************************************************************)
C24_CallsIndependent ==
  /\ pc = "returned" => differences = loop(script, <<>>, 0, <<>>)
  /\ other.pc = "returned" => other.differences = loop(other.script, <<>>, 0, <<>>)

\* both calls have returned an edit, the running one after it waited with
\* a batch in hand
C24_Witness ==
  /\ pc = "returned"
  /\ other.pc = "returned"
  /\ Len(differences) = 1
  /\ differences[1].operation = REPLACE
  /\ Len(script) = 3
  /\ other.differences # <<>>
  /\ other.script # script

(***************************************************************************)
(* C25 as stated: every Equal op with text t that arrives while the batch  *)
(* is non-empty and t contains no line ending is appended to the batch as  *)
(* an Equal entry and the coalescer remains in Batching, wherever that     *)
(* Equal op stands in the script; its text is then part of both deleteText *)
(* and insertText of the edit produced by the next flush.                  *)
(***************************************************************************)
\* the loop is about to take an EQUAL op while the batch is not empty
EqualWhileBatching ==
  /\ pc = "loop"
  /\ results # <<>>
  /\ Head(results).op = diff_EQUAL
  /\ batch # <<>>

\* t is a contiguous part of the text s
IsPartOf(t, s) == \E i \in 1..(Len(s) - Len(t) + 1) : SubSeq(s, i, i + Len(t) - 1) = t

\* this iteration flushes
Flushing == flushes' = flushes + 1

\* the batch an iteration that flushes hands to flush()
BatchAtFlush ==
  IF Head(results).op = diff_EQUAL THEN batch ELSE Append(batch, Head(results))

\* the edit pushed by a flush holds the text of every Equal entry of the
\* flushed batch in its deleteText and in its insertText
EqualTextInEdit ==
  (Flushing /\ \E i \in 1..Len(BatchAtFlush) : BatchAtFlush[i].op = diff_EQUAL) =>
    /\ Len(differences') = Len(differences) + 1
    /\ LET e == differences'[Len(differences')]
       IN  /\ e.operation = REPLACE
           /\ \A i \in 1..Len(BatchAtFlush) :
                 BatchAtFlush[i].op = diff_EQUAL =>
                   /\ IsPartOf(BatchAtFlush[i].text, e.deleteText)
                   /\ IsPartOf(BatchAtFlush[i].text, e.insertText)

C25_EqualAlwaysBatched ==
  [][ /\ (EqualWhileBatching /\ ~ContainsLineEnding(Head(results).text)) =>
          /\ batch' = Append(batch, Head(results))
          /\ differences' = differences
          /\ offset' = offset
      /\ EqualTextInEdit ]_vars

(***************************************************************************)
(* C25, amended.  An Equal op with text t that arrives while the batch is  *)
(* non-empty, t containing no line ending, is appended to the batch as an  *)
(* Equal entry when it is not the last op of the script, and its text is   *)
(* then part of both deleteText and insertText of the edit produced by the *)
(* next flush.  When it is the last op it is not appended: the batch is    *)
(* flushed without it and its text is in no edit.                          *)
(***************************************************************************)
C25_EqualBatchedUnlessLast ==
  [][ /\ (EqualWhileBatching /\ ~ContainsLineEnding(Head(results).text)) =>
          IF Tail(results) # <<>>
            THEN /\ batch' = Append(batch, Head(results))
                 /\ differences' = differences
                 /\ offset' = offset
            ELSE /\ batch' = <<>>
                 /\ Len(differences') = Len(differences) + 1
                 /\ deleteTextOf(differences'[Len(differences')]) = OldSide(batch)
                 /\ insertTextOf(differences'[Len(differences')]) = NewSide(batch)
      /\ EqualTextInEdit ]_vars

\* a change, unchanged text and a change were flushed as one replacement
\* that holds the unchanged text
C25_Witness ==
  /\ pc = "returned"
  /\ Len(script) = 3
  /\ script[1].op = diff_DELETE
  /\ script[2].op = diff_EQUAL
  /\ script[3].op = diff_INSERT
  /\ Len(differences) = 1
  /\ differences[1].operation = REPLACE
  /\ differences[1].deleteText = script[1].text \o script[2].text
  /\ differences[1].insertText = script[2].text \o script[3].text

(***************************************************************************)
(* C26 as stated: when an Equal op whose text contains a line ending       *)
(* arrives while the batch is non-empty, the batch is first flushed into   *)
(* one edit at the current offset and only then is the offset advanced by  *)
(* the full length of the Equal text, leaving the batch empty; changes     *)
(* separated by unchanged text containing a line ending are therefore      *)
(* reported as separate edits.                                             *)
(***************************************************************************)
\* the batch has been flushed into one edit at the offset the step began at
FlushedIntoOneEdit ==
  /\ Len(differences') = Len(differences) + 1
  /\ SubSeq(differences', 1, Len(differences)) = differences
  /\ differences'[Len(differences')].offset = offset
  /\ deleteTextOf(differences'[Len(differences')]) = OldSide(batch)
  /\ insertTextOf(differences'[Len(differences')]) = NewSide(batch)
  /\ batch' = <<>>

\* one edit for each run of changes not separated by a line ending
SeparateEdits == pc' = "returned" => Len(differences') = Cardinality(Runs(script))

C26_FlushThenAdvance ==
  [][ /\ (EqualWhileBatching /\ ContainsLineEnding(Head(results).text)) =>
          /\ FlushedIntoOneEdit
          /\ offset' = offset + Len(OldSide(batch)) + Len(Head(results).text)
      /\ SeparateEdits ]_vars

(***************************************************************************)
(* C26, amended.  When an Equal op whose text contains a line ending       *)
(* arrives while the batch is non-empty, the batch is flushed into one     *)
(* edit at the current offset, leaving the batch empty.  When the op is    *)
(* not the last of the script the offset is then advanced by the full      *)
(* length of the Equal text; when it is the last, the offset stays where   *)
(* the flush left it.  Changes separated by unchanged text containing a    *)
(* line ending are reported as separate edits.                             *)
(***************************************************************************)
C26_FlushThenAdvanceUnlessLast ==
  [][ /\ (EqualWhileBatching /\ ContainsLineEnding(Head(results).text)) =>
          /\ FlushedIntoOneEdit
          /\ offset' = offset + Len(OldSide(batch))
                         + (IF Tail(results) # <<>> THEN Len(Head(results).text) ELSE 0)
      /\ SeparateEdits ]_vars

\* two changes with a line ending between them gave two edits, the second
\* at the offset behind the line ending
C26_Witness ==
  /\ pc = "returned"
  /\ Len(script) = 3
  /\ script[2].op = diff_EQUAL
  /\ ContainsLineEnding(script[2].text)
  /\ Len(differences) = 2
  /\ differences[2].offset =
       differences[1].offset + Len(deleteTextOf(differences[1])) + Len(script[2].text)

(***************************************************************************)
(* C27. Flush classifies the accumulated batch by its two texts: a Replace *)
(* when deleteText and insertText are both non-empty, an Insert with no    *)
(* deleteText when only insertText is non-empty, a Delete with no          *)
(* insertText when only deleteText is non-empty, nothing when both are     *)
(* empty.  After every flush the offset has grown by exactly               *)
(* len(deleteText) and the batch is empty.                                 *)
(***************************************************************************)
\* the iteration is the flush-then-advance of an EQUAL op with a line ending
AdvancesAfterFlush ==
  /\ Head(results).op = diff_EQUAL
  /\ Tail(results) # <<>>

C27_FlushClassifies ==
  [][ Flushing =>
        LET del == OldSide(BatchAtFlush)
            ins == NewSide(BatchAtFlush)
            new == SubSeq(differences', Len(differences) + 1, Len(differences'))
        IN  /\ SubSeq(differences', 1, Len(differences)) = differences
            /\ (del # <<>> /\ ins # <<>>) =>
                  new = << [operation |-> REPLACE, offset |-> offset,
                            deleteText |-> del, insertText |-> ins] >>
            /\ (del = <<>> /\ ins # <<>>) =>
                  new = << [operation |-> INSERT, offset |-> offset, insertText |-> ins] >>
            /\ (del # <<>> /\ ins = <<>>) =>
                  new = << [operation |-> DELETE, offset |-> offset, deleteText |-> del] >>
            /\ (del = <<>> /\ ins = <<>>) => new = <<>>
            /\ offset' = offset + Len(del)
                           + (IF AdvancesAfterFlush THEN Len(Head(results).text) ELSE 0)
            /\ batch' = <<>> ]_vars

\* a flush of a batch of empty texts that emitted nothing, then a flush
\* that emitted an edit
C27_Witness ==
  /\ pc = "returned"
  /\ flushes = 2
  /\ Len(differences) = 1
  /\ script[1].text = <<>>
  /\ script[1].op = diff_INSERT
  /\ script[2].op = diff_EQUAL
  /\ differences[1].operation \in {INSERT, DELETE}
  /\ batch = <<>>

(***************************************************************************)
(* C28. The offset cursor never decreases and is never changed by          *)
(* processing an Insert op: it grows only by the length of Equal text      *)
(* skipped outside a batch and by the length of the deleteText of a        *)
(* flushed batch, and it never exceeds len(source).                        *)
(***************************************************************************)
\* the iteration skips the text of an EQUAL op: the op is not the last and
\* either the batch is empty or the text has a line ending and the batch is
\* flushed first
SkipsEqualText ==
  /\ results # <<>>
  /\ Head(results).op = diff_EQUAL
  /\ Tail(results) # <<>>
  /\ batch = <<>> \/ ContainsLineEnding(Head(results).text)

C28_OffsetMonotone ==
  [][ /\ offset' >= offset
      /\ offset' <= Len(source)
      /\ pc = "loop" /\ results # <<>> =>
            offset' = offset
                       + (IF SkipsEqualText THEN Len(Head(results).text) ELSE 0)
                       + (IF Flushing
                            THEN Len(deleteTextOf(differences'[Len(differences')]))
                          ELSE 0)
      /\ (pc = "loop" /\ results # <<>> /\ Head(results).op = diff_INSERT /\ ~Flushing) =>
            offset' = offset ]_vars

\* an insertion was processed at a cursor that unchanged text had moved,
\* and the flush of a later deletion moved it again
C28_Witness ==
  /\ pc = "returned"
  /\ Len(script) = 3
  /\ script[1].op = diff_EQUAL
  /\ script[2].op = diff_DELETE
  /\ script[3].op = diff_INSERT
  /\ Len(differences) = 1
  /\ differences[1].offset = Len(script[1].text)
  /\ offset = Len(script[1].text) + Len(script[2].text)
  /\ offset = Len(source)

(***************************************************************************)
(* C29. Temporary files never outlive the call that created them: when     *)
(* lint or format returns or throws, also when writing the config temp     *)
(* file, running oxlint or reading its output fails, every temp file the   *)
(* call created has been removed from tempFiles and had an unlink          *)
(* attempted, so tempFiles is empty whenever no call is in progress.       *)
(***************************************************************************)
C29_TempFilesCleaned ==
  /\ tempFiles = {}
  /\ lpc \in {"lint", "format"} =>
       /\ outcome \in {"returned", "threw"}
       /\ created \cap tempFiles = {}
       /\ created \subseteq unlinked
       /\ fault \notin {"ensureTempDir", "writeCode"} => CodeTemp \in created
       /\ (configArg.kind = "temp") => ConfigTemp \in created

\* the oxlint run failed after both temp files were written
C29_Witness ==
  /\ lpc = "format"
  /\ fault = "oxlint"
  /\ outcome = "threw"
  /\ created = {CodeTemp, ConfigTemp}
  /\ unlinked = {CodeTemp, ConfigTemp}
  /\ tempFiles = {}

\* C30: merging the same override twice changes nothing more: for config
\* trees a and b, mergeConfigs(mergeConfigs(a, b), b) = mergeConfigs(a, b),
\* and merging a config tree with itself gives it back, mergeConfigs(a, a) = a.
C30_MergeIdempotent ==
  (base \in Trees /\ override \in Trees) =>
    /\ mpc = "again" => mergedAgain = merged
    /\ (mpc \in {"done", "again"} /\ base = override) => merged = base

\* the override has been merged a second time into a result in which a nested
\* object of the base and one of the override were merged key by key
C30_Witness ==
  /\ mpc = "again"
  /\ base \in Trees
  /\ override \in Trees
  /\ base # override
  /\ \E key \in keys(base) \cap keys(override) :
        /\ base.props[key].t = "object"
        /\ override.props[key].t = "object"
        /\ merged.props[key] # base.props[key]
        /\ merged.props[key] # override.props[key]

====
